---- MODULE Spec2Model ----
(***************************************************************************)
(* Model of sgx-insider-trading: src/forms.py (money_str_to_float,         *)
(* NotificationForm1) and src/pdf_parser.py (xml_get_text).                *)
(*                                                                         *)
(* Texts are TLA+ strings; a character is a string of length 1.  Python's  *)
(* 0-based indices are shifted to 1-based ones, and the "not found" index  *)
(* -1 of the source is NotFound.                                           *)
(***************************************************************************)
EXTENDS Integers, Sequences, FiniteSets, TLC

VARIABLES
    pc,                          \* which step of its specification comes next
    text, default,               \* arguments of money_str_to_float
    root, field,                 \* arguments of xml_get_text
    src,                         \* the fields the filing was written with
    self,                        \* the NotificationForm1 instance
    lookups,                     \* per lookup site: the times it has run
    lastCall, lastRet,           \* the last call made and what it returned
    repeated                     \* the last two calls were of one accessor

formVars == <<src, self, lookups, repeated>>
vars == <<pc, text, default, root, field, formVars, lastCall, lastRet>>

(***************************************************************************)
(* Python values                                                           *)
(***************************************************************************)
None == [kind |-> "none"]
Str(s) == [kind |-> "str", s |-> s]
Bool(b) == [kind |-> "bool", b |-> b]
\* A float with the decimal value m * 10^e (m not divisible by 10, or 0 = 0*10^0).
Float(m, e) == [kind |-> "float", m |-> m, e |-> e]
Inf == [kind |-> "inf"]
PyInt(n) == [kind |-> "int", n |-> n]
Dict(d) == [kind |-> "dict", d |-> d]
Raised(e) == [kind |-> "raise", e |-> e]

\* The numbers 0 and 0.0, equal by value in Python.
Zero == Float(0, 0)

NotFound == 0
NoDict == [k \in {} |-> 0]

(***************************************************************************)
(* str                                                                     *)
(***************************************************************************)
At(s, i) == SubSeq(s, i, i)

UPPER == "ABCDEFGHIJKLMNOPQRSTUVWXYZ"
LOWER == "abcdefghijklmnopqrstuvwxyz"
DIGITS == "0123456789"
WHITESPACE == {" ", "\t", "\n", "\r"}

isdecimal(c) == \E i \in 1..Len(DIGITS) : At(DIGITS, i) = c

DigitVal(c) == (CHOOSE i \in 1..Len(DIGITS) : At(DIGITS, i) = c) - 1

LowerChar(c) ==
    IF \E i \in 1..Len(UPPER) : At(UPPER, i) = c
    THEN At(LOWER, CHOOSE i \in 1..Len(UPPER) : At(UPPER, i) = c)
    ELSE c

RECURSIVE lower(_)
lower(s) == IF s = "" THEN "" ELSE LowerChar(Head(s)) \o lower(Tail(s))

\* s.replace(old, "") for a single character old
RECURSIVE remove(_, _)
remove(s, old) ==
    IF s = "" THEN ""
    ELSE (IF Head(s) = old THEN "" ELSE Head(s)) \o remove(Tail(s), old)

endswith(s, suffix) ==
    /\ Len(s) >= Len(suffix)
    /\ SubSeq(s, Len(s) - Len(suffix) + 1, Len(s)) = suffix

RECURSIVE lstrip(_)
lstrip(s) == IF s # "" /\ Head(s) \in WHITESPACE THEN lstrip(Tail(s)) ELSE s

RECURSIVE rstrip(_)
rstrip(s) ==
    IF s # "" /\ At(s, Len(s)) \in WHITESPACE
    THEN rstrip(SubSeq(s, 1, Len(s) - 1)) ELSE s

strip(s) == rstrip(lstrip(s))

\* Index of the first occurrence of character c in s, or NotFound.
RECURSIVE str_find_from(_, _, _)
str_find_from(s, c, i) ==
    IF i > Len(s) THEN NotFound
    ELSE IF At(s, i) = c THEN i ELSE str_find_from(s, c, i + 1)

str_find(s, c) == str_find_from(s, c, 1)

(***************************************************************************)
(* int() and float() of the Python runtime, on the texts of the model      *)
(***************************************************************************)
RECURSIVE Pow10(_)
Pow10(k) == IF k = 0 THEN 1 ELSE 10 * Pow10(k - 1)

\* digit ("_"? digit)*: the digit groups int() and float() accept
RECURSIVE IsDigitGroupFrom(_, _)
IsDigitGroupFrom(s, i) ==
    IF i > Len(s) THEN FALSE
    ELSE IF ~isdecimal(At(s, i)) THEN FALSE
    ELSE IF i = Len(s) THEN TRUE
    ELSE IF At(s, i + 1) = "_" THEN IsDigitGroupFrom(s, i + 2)
    ELSE IsDigitGroupFrom(s, i + 1)

IsDigitGroup(s) == IsDigitGroupFrom(s, 1)

RECURSIVE DigitsValue(_, _)
DigitsValue(s, acc) ==
    IF s = "" THEN acc
    ELSE DigitsValue(Tail(s), acc * 10 + DigitVal(Head(s)))

Unsigned(s) == DigitsValue(remove(s, "_"), 0)

Unsign(s) == IF s # "" /\ Head(s) \in {"+", "-"} THEN Tail(s) ELSE s

Signed(s) == IF s # "" /\ Head(s) = "-" THEN 0 - Unsigned(Tail(s)) ELSE Unsigned(Unsign(s))

\* int(s): surrounding whitespace, an optional sign, one digit group.
int_ok(s) == IsDigitGroup(Unsign(strip(s)))

int(s) == IF int_ok(s) THEN PyInt(Signed(strip(s))) ELSE Raised("ValueError")

RECURSIVE Normal(_, _)
Normal(m, e) ==
    IF m = 0 THEN Float(0, 0)
    ELSE IF m % 10 = 0 THEN Normal(m \div 10, e + 1)
    ELSE Float(m, e)

\* float(s) for an s that begins and ends with a decimal digit (all the code
\* passes): mantissa digits, an optional point, an optional exponent.
float_parts(s) ==
    LET ie == str_find(s, "e")
        mant == IF ie = NotFound THEN s ELSE SubSeq(s, 1, ie - 1)
        expo == IF ie = NotFound THEN "" ELSE SubSeq(s, ie + 1, Len(s))
        ip == str_find(mant, ".")
        whole == IF ip = NotFound THEN mant ELSE SubSeq(mant, 1, ip - 1)
        frac == IF ip = NotFound THEN "" ELSE SubSeq(mant, ip + 1, Len(mant))
    IN [hasExp |-> ie # NotFound, expo |-> expo, hasPoint |-> ip # NotFound,
        whole |-> whole, frac |-> frac]

float_ok(s) ==
    LET p == float_parts(s) IN
    /\ p.whole = "" \/ IsDigitGroup(p.whole)
    /\ p.frac = "" \/ IsDigitGroup(p.frac)
    /\ p.whole # "" \/ p.frac # ""
    /\ p.hasExp => IsDigitGroup(Unsign(p.expo))

NumDigits(m) == CHOOSE d \in 1..10 : Pow10(d - 1) <= m /\ (d = 10 \/ m < Pow10(d))

\* m * 10^e is beyond the largest double, so that the runtime holds inf.
Overflows(m, e) ==
    LET d == NumDigits(m)
        lead == IF d <= 8 THEN m * Pow10(8 - d) ELSE m \div Pow10(d - 8)
    IN /\ m > 0
       /\ \/ e + d - 1 > 308
          \/ e + d - 1 = 308 /\ lead > 17976931   \* DBL_MAX = 1.7976931348623157e308

float(s) ==
    IF ~float_ok(s) THEN Raised("ValueError")
    ELSE LET p == float_parts(s)
             fracDigits == remove(p.frac, "_")
             m == Unsigned(p.whole \o fracDigits)
             e == (IF p.hasExp THEN Signed(p.expo) ELSE 0) - Len(fracDigits)
             f == Normal(m, e)
         IN IF Overflows(f.m, f.e) THEN Inf ELSE f

\* x * 10^k for a power of ten k >= 0
Times(x, k) ==
    IF x.kind = "inf" \/ x.m = 0 THEN x
    ELSE IF Overflows(x.m, x.e + k) THEN Inf ELSE Float(x.m, x.e + k)

\* round(x, 2).  The texts of the model hold no digit 5, so no value lies
\* halfway between two hundredths and the nearest is the same in binary.
round2(x) ==
    IF x.kind = "inf" \/ x.e >= -2 THEN x
    ELSE LET k == (0 - 2) - x.e IN
         IF k >= 10 THEN Float(0, 0)
         ELSE LET q == x.m \div Pow10(k)
                  r == x.m % Pow10(k)
                  half == 5 * Pow10(k - 1)
                  up == r > half \/ (r = half /\ q % 2 = 1)
              IN Normal(IF up THEN q + 1 ELSE q, -2)

(***************************************************************************)
(* xml.etree.ElementTree: an element tree is the sequence of its elements  *)
(* in document order, each with its depth (the root, element 1, has depth  *)
(* 0), its tag and its text (None or a str).  An element is its index.     *)
(***************************************************************************)
Element(depth, tag, txt) == [depth |-> depth, tag |-> tag, text |-> txt]

\* The elements of set S as a sequence in document order.
RECURSIVE InOrder(_)
InOrder(S) ==
    IF S = {} THEN <<>>
    ELSE LET i == CHOOSE x \in S : \A y \in S : x <= y IN <<i>> \o InOrder(S \ {i})

\* The last element of the subtree of element i.
SubtreeEnd(tree, i) ==
    LET after == {j \in (i + 1)..Len(tree) : tree[j].depth <= tree[i].depth} IN
    IF after = {} THEN Len(tree)
    ELSE (CHOOSE j \in after : \A k \in after : j <= k) - 1

\* elem.iter(tag) without elem itself
Descendants(tree, i, tag) ==
    InOrder({k \in (i + 1)..SubtreeEnd(tree, i) : tree[k].tag = tag})

\* the children of elem with the tag
Children(tree, i, tag) ==
    InOrder({k \in (i + 1)..SubtreeEnd(tree, i) :
                tree[k].tag = tag /\ tree[k].depth = tree[i].depth + 1})

\* ElementPath's "//tag" step over the elements selected so far
RECURSIVE prepare_descendant(_, _, _)
prepare_descendant(tree, result, tag) ==
    IF result = <<>> THEN <<>>
    ELSE Descendants(tree, Head(result), tag)
             \o prepare_descendant(tree, Tail(result), tag)

\* ElementPath's "/tag" step over the elements selected so far
RECURSIVE prepare_child(_, _, _)
prepare_child(tree, result, tag) ==
    IF result = <<>> THEN <<>>
    ELSE Children(tree, Head(result), tag) \o prepare_child(tree, Tail(result), tag)

RECURSIVE select_children(_, _, _)
select_children(tree, result, steps) ==
    IF steps = <<>> THEN result
    ELSE select_children(tree, prepare_child(tree, result, Head(steps)), Tail(steps))

\* elem.find(".//" + path): the first element ElementPath yields, or NotFound
\* (find returns None).  A path "t1/t2/.../tn" of plain tags is the sequence
\* <<"t1", "t2", ..., "tn">> of its steps.
Element_find(tree, elem, path) ==
    LET found == select_children(tree, prepare_descendant(tree, <<elem>>, Head(path)),
                                 Tail(path))
    IN IF found = <<>> THEN NotFound ELSE Head(found)

\* A slip in the search: the children of root only, not every descendant.
xml_get_text_children_only(tree, elem, fld) ==
    LET found == select_children(tree, <<elem>>, fld) IN
    IF found = <<>> \/ tree[Head(found)].text = None THEN ""
    ELSE tree[Head(found)].text.s

(***************************************************************************)
(* pdf_parser.py: xml_get_text                                             *)
(***************************************************************************)
xml_get_text(tree, elem, fld) ==
    LET element == Element_find(tree, elem, fld) IN
    IF element = NotFound THEN ""
    ELSE IF tree[element].text = None THEN ""
    ELSE tree[element].text.s


(***************************************************************************)
(* forms.py: money_str_to_float                                            *)
(***************************************************************************)
\* for i in range(len(text)): if text[i].isdecimal(): idx_start = i; break
RECURSIVE idx_start_from(_, _)
idx_start_from(t, i) ==
    IF i > Len(t) THEN NotFound
    ELSE IF isdecimal(At(t, i)) THEN i ELSE idx_start_from(t, i + 1)

idx_start(t) == idx_start_from(t, 1)

\* for i in range(len(text)-1, -1, -1): if text[i].isdecimal(): idx_end = i; break
RECURSIVE idx_end_from(_, _)
idx_end_from(t, i) ==
    IF i < 1 THEN NotFound
    ELSE IF isdecimal(At(t, i)) THEN i ELSE idx_end_from(t, i - 1)

idx_end(t) == idx_end_from(t, Len(t))

\* A plausible repair gone wrong: the suffix is read right after the digits.
factor_adjacent(t) ==
    LET c == IF idx_end(t) < Len(t) THEN At(t, idx_end(t) + 1) ELSE "" IN
    IF c = "k" THEN 3 ELSE IF c = "m" THEN 6 ELSE IF c = "b" THEN 9
    ELSE IF c = "t" THEN 12 ELSE 0

\* The decimal exponent of factor: 1_000 is 3, ..., 1 is 0.
factor(t) ==
    IF endswith(t, "k") THEN 3
    ELSE IF endswith(t, "m") \/ endswith(t, "mm") THEN 6
    ELSE IF endswith(t, "b") THEN 9
    ELSE IF endswith(t, "t") THEN 12
    ELSE 0

money_str_to_float(txt, dflt) ==
    LET t == remove(lower(txt), ",")
        s == idx_start(t)
        e == idx_end(t)
    IN IF s = NotFound \/ e = NotFound THEN dflt
       ELSE LET output == float(SubSeq(t, s, e)) IN
            IF output.kind = "raise" THEN dflt
            ELSE round2(Times(output, factor(t)))

(***************************************************************************)
(* forms.py: SecurityType and the filings of the model                     *)
(***************************************************************************)
SecurityType ==
    {"ORDINARY_SHARES", "OTHER_SHARES", "RIGHTS_OPTIONS_WARRANTS", "DEBENTURES",
     "RIGHTS_OPTIONS_OF_DEBENTURES", "CONTRACTS", "PARTICIPATORY_INTERESTS", "OTHERS"}

\* SecurityType.partition: SecurityType derives from str, so the attribute is
\* the method str.partition, which is hashable and no member of the enumeration.
str_partition == "<method 'partition' of 'str' objects>"

\* tags of __parse_part_2_securities
part_2_tags ==
    << [key |-> "ORDINARY_SHARES", path |-> <<"ord", "num", "tot">>],
       [key |-> "OTHER_SHARES", path |-> <<"othx", "tot">>],
       [key |-> "RIGHTS_OPTIONS_WARRANTS", path |-> <<"opt", "num", "tot">>],
       [key |-> "DEBENTURES", path |-> <<"deb", "amt", "tot">>],
       [key |-> "RIGHTS_OPTIONS_OF_DEBENTURES", path |-> <<"rDeb", "amt", "tot">>],
       [key |-> "CONTRACTS", path |-> <<"con", "amt", "tot">>],
       [key |-> "PARTICIPATORY_INTERESTS", path |-> <<"opt", "part", "tot">>],
       [key |-> "OTHERS", path |-> <<"opt", "oth", "tot">>] >>

\* tags of __parse_part_3_securities
part_3_tags ==
    << [key |-> "ORDINARY_SHARES", tag |-> "T1Ord", path |-> <<"num", "tot">>],
       [key |-> "OTHER_SHARES", tag |-> "T2Othx", path |-> <<"tot">>],
       [key |-> "RIGHTS_OPTIONS_WARRANTS", tag |-> "T3Opt", path |-> <<"num", "tot">>],
       [key |-> "DEBENTURES", tag |-> "T4Deb", path |-> <<"amt", "tot">>],
       [key |-> "RIGHTS_OPTIONS_OF_DEBENTURES", tag |-> "T5RDeb", path |-> <<"amt", "tot">>],
       [key |-> "CONTRACTS", tag |-> "T6Con", path |-> <<"amt", "tot">>],
       [key |-> str_partition, tag |-> "T7Part", path |-> <<"part", "tot">>],
       [key |-> "OTHERS", tag |-> "T8Oth", path |-> <<"oth", "tot">>] >>

\* A chain of nested elements, one per tag of the path, the first at depth d
\* and the last with the text (an element without characters has text None).
RECURSIVE ChainOf(_, _, _)
ChainOf(d, steps, txt) ==
    IF Len(steps) = 1
    THEN <<Element(d, Head(steps), IF txt = "" THEN None ELSE Str(txt))>>
    ELSE <<Element(d, Head(steps), None)>> \o ChainOf(d + 1, Tail(steps), txt)

\* Nothing when the filing leaves the field out (its value is None).
Chain(d, path, value) ==
    IF value = None THEN <<>> ELSE ChainOf(d, path, value.s)

\* The section of the form a row of either table stands for.
RowType(i) == part_2_tags[i].key

RECURSIVE Part2Rows(_, _)
Part2Rows(cells, i) ==
    IF i > Len(part_2_tags) THEN <<>>
    ELSE Chain(6, part_2_tags[i].path, cells[RowType(i)]) \o Part2Rows(cells, i + 1)

RECURSIVE Part3Rows(_, _, _)
Part3Rows(before, after, i) ==
    IF i > Len(part_3_tags) THEN <<>>
    ELSE LET t == part_3_tags[i] IN
         Chain(6, <<t.tag, "before">> \o t.path, before[RowType(i)])
         \o Chain(6, <<t.tag, "after">> \o t.path, after[RowType(i)])
         \o Part3Rows(before, after, i + 1)

\* The XFA datasets packet of a Form 1 filing f, as extract_xml_from_xfa parses it.
Document(f) ==
    <<Element(0, "xfa:datasets", None), Element(1, "xfa:data", None),
      Element(2, "SFA289", None), Element(3, "Form1", None),
      Element(4, "Part1", None)>>
    \o Chain(5, <<"notifyingAtApptTime">>, f.flag)
    \o <<Element(5, "listedIssuer", None)>>
    \o Chain(6, <<"name">>, f.name) \o Chain(6, <<"type">>, f.type)
    \o Chain(5, <<"nameDirector">>, f.director)
    \o <<Element(4, "Part2", None)>>
    \o Chain(5, <<"dateAppointmentDirectorLI">>, f.dateAppt)
    \o (IF f.part2 = None THEN <<>>
        ELSE <<Element(5, "T1", None)>> \o Part2Rows(f.part2.d, 1))
    \o <<Element(4, "Part3", None)>>
    \o (IF f.part3 = None THEN <<>>
        ELSE <<Element(5, "Transaction", None)>>
             \o Chain(6, <<"dateAquisition">>, f.part3.date)
             \o Chain(6, <<"amtConsideration">>, f.part3.amt)
             \o Part3Rows(f.part3.before, f.part3.after, 1))

\* The cells of a table: the listed ones, every other row left out.
Cells(listed) ==
    [k \in SecurityType |-> IF k \in DOMAIN listed THEN Str(listed[k]) ELSE None]

NoCells == [k \in SecurityType |-> None]

ORD == "ORDINARY_SHARES"
PART == "PARTICIPATORY_INTERESTS"
OTH == "OTHERS"

Part2Tables ==
    {None,
     Dict(NoCells),
     Dict(Cells(ORD :> "1,000" @@ PART :> "7")),
     Dict(Cells(ORD :> "x")),
     Dict(Cells(ORD :> "" @@ OTH :> " 8"))}

Part3Blocks ==
    {None,
     [kind |-> "block", date |-> Str("01/02/2013"), amt |-> Str("S$1.6k"),
      before |-> Cells(ORD :> "6" @@ PART :> "7" @@ OTH :> ""),
      after |-> Cells(ORD :> "16" @@ PART :> "" @@ OTH :> "")],
     [kind |-> "block", date |-> None, amt |-> None,
      before |-> NoCells, after |-> NoCells],
     [kind |-> "block", date |-> Str("01/02/2013"), amt |-> Str(""),
      before |-> Cells(ORD :> "1,000"), after |-> Cells(ORD :> "1.6")],
     [kind |-> "block", date |-> Str("01/02/2013"), amt |-> Str("n/a"),
      before |-> Cells(ORD :> "1,000"),
      after |-> Cells(ORD :> "1,000" @@ PART :> "1_6")]}

Headers ==
    {[flag |-> Str("1"), name |-> Str("ACME LTD"), type |-> Str("2"),
      director |-> Str("TAN AH KOW"), dateAppt |-> Str("21/06/2013")],
     [flag |-> Str(" 1\n"), name |-> None, type |-> Str("9"),
      director |-> Str(""), dateAppt |-> None],
     [flag |-> Str("0"), name |-> Str("ACME LTD"), type |-> Str("1"),
      director |-> Str("TAN AH KOW"), dateAppt |-> Str("21/06/2013")],
     [flag |-> None, name |-> Str(""), type |-> None,
      director |-> None, dateAppt |-> Str("21/06/2013")]}

Filings ==
    {[flag |-> h.flag, name |-> h.name, type |-> h.type, director |-> h.director,
      dateAppt |-> h.dateAppt, part2 |-> p2, part3 |-> p3] :
        h \in Headers, p2 \in Part2Tables, p3 \in Part3Blocks}

(***************************************************************************)
(* forms.py: NotificationForm1                                             *)
(***************************************************************************)
\* What went wrong in a repair: a count that does not parse counts as 0.
count_or_zero(txt) ==
    IF int_ok(remove(txt, ",")) THEN int(remove(txt, ",")) ELSE PyInt(0)

\* int(text.replace(",", ""))
count(txt) == int(remove(txt, ","))

Put(d, key, n) == [k \in DOMAIN d \cup {key} |-> IF k = key THEN n ELSE d[k]]

\* for tag in tags: ... of __parse_part_2_securities, from row i on
RECURSIVE part_2_rows(_, _, _, _)
part_2_rows(tree, part_2_node, i, securities_by_type) ==
    IF i > Len(part_2_tags) THEN Dict(securities_by_type)
    ELSE LET tag == part_2_tags[i]
             txt == xml_get_text(tree, part_2_node, tag.path)
         IN IF txt = "" THEN part_2_rows(tree, part_2_node, i + 1, securities_by_type)
            ELSE IF count(txt).kind = "raise" THEN count(txt)
            ELSE part_2_rows(tree, part_2_node, i + 1,
                             Put(securities_by_type, tag.key, count(txt).n))

\* A dict, None when the filing has no Part2/T1, or the ValueError raised.
__parse_part_2_securities(tree) ==
    LET part_2_node == Element_find(tree, 1, <<"xfa:data", "SFA289", "Form1", "Part2", "T1">>) IN
    IF part_2_node = NotFound THEN None
    ELSE part_2_rows(tree, part_2_node, 1, NoDict)

Tuple(a, b) == [kind |-> "tuple", before |-> a, after |-> b]

\* for tag in tags: ... of __parse_part_3_securities, from row i on
RECURSIVE part_3_rows(_, _, _, _, _)
part_3_rows(tree, part_3_node, i, securities_before, securities_after) ==
    IF i > Len(part_3_tags) THEN Tuple(Dict(securities_before), Dict(securities_after))
    ELSE LET tag == part_3_tags[i]
             txtB == xml_get_text(tree, part_3_node, <<tag.tag, "before">> \o tag.path)
             txtA == xml_get_text(tree, part_3_node, <<tag.tag, "after">> \o tag.path)
         IN IF txtB # "" /\ count(txtB).kind = "raise" THEN count(txtB)
            ELSE IF txtA # "" /\ count(txtA).kind = "raise" THEN count(txtA)
            ELSE part_3_rows(tree, part_3_node, i + 1,
                    IF txtB = "" THEN securities_before
                    ELSE Put(securities_before, tag.key, count(txtB).n),
                    IF txtA = "" THEN securities_after
                    ELSE Put(securities_after, tag.key, count(txtA).n))

\* A pair of dicts, (None, None) when the filing has no Part3/Transaction, or
\* the ValueError raised.
__parse_part_3_securities(tree) ==
    LET part_3_node ==
            Element_find(tree, 1, <<"xfa:data", "SFA289", "Form1", "Part3", "Transaction">>)
    IN IF part_3_node = NotFound THEN Tuple(None, None)
       ELSE part_3_rows(tree, part_3_node, 1, NoDict, NoDict)

\* The accessors are called while no lookup has run more than MaxLookups times.
MaxLookups == 2

\* The places of the code that look a derived field up in the tree.
LookupSites ==
    {"issuer_name", "issuer_type", "insider_name", "trade_date",
     "__parse_part_2_securities", "__parse_part_3_securities", "amt_consideration"}

Looked(site) == [lookups EXCEPT ![site] = @ + 1]

Return(name, value) ==
    /\ lastCall' = name
    /\ lastRet' = value
    /\ repeated' = (lastCall = name)

\* A slip in the flag: the text is compared as it stands, not stripped.
flag_unstripped(tree) ==
    xml_get_text(tree, 1, <<"Form1", "Part1", "notifyingAtApptTime">>)

\* xml_get_text(self._xml(), "Form1/Part1/notifyingAtApptTime").strip()
flag(tree) == strip(xml_get_text(tree, 1, <<"Form1", "Part1", "notifyingAtApptTime">>))

\* NotificationForm.__init__: the tree of the stream, every field None.
NotificationForm(tree) ==
    [_xml |-> tree,
     _issuer_name |-> None, _issuer_type |-> None, _insider_name |-> None,
     _insider_title |-> None, _trade_date |-> None, _securities_before |-> None,
     _securities_after |-> None, _amt_consideration |-> None,
     _is_notifying_at_appt_time |-> None]

\* NotificationForm1.__init__: the instance, or the ValueError raised by
\* __parse_part_3_securities, which leaves the caller without one.
NotificationForm1(tree) ==
    LET parsed == __parse_part_3_securities(tree) IN
    IF parsed.kind = "raise" THEN parsed
    ELSE [NotificationForm(tree) EXCEPT
             !._insider_title = Str("Director/CEO"),
             !._is_notifying_at_appt_time = Str(flag(tree)),
             !._securities_before = parsed.before,
             !._securities_after = parsed.after]

Init_NotificationForm1 ==
    /\ pc = "new"
    /\ LET made == NotificationForm1(self._xml) IN
       IF made = Raised("ValueError")
       THEN /\ pc' = "failed"
            /\ Return("__init__", made)
            /\ UNCHANGED self
       ELSE /\ pc' = "ready"
            /\ Return("__init__", None)
            /\ self' = made
    /\ lookups' = Looked("__parse_part_3_securities")
    /\ UNCHANGED <<text, default, root, field, src>>

\* What a call does: the value it returns (ret), the instance afterwards
\* (self) and the lookup it ran ("" when none).
Call(ret, obj, site) == [ret |-> ret, self |-> obj, site |-> site]

is_notifying_at_appt_time(obj) == obj._is_notifying_at_appt_time = Str("1")

is_notifying_at_appt_time_call(obj) ==
    Call(Bool(is_notifying_at_appt_time(obj)), obj, "")

insider_title_call(obj) == Call(obj._insider_title, obj, "")

issuer_name_call(obj) ==
    IF obj._issuer_name = None
    THEN LET v == Str(xml_get_text(obj._xml, 1,
                                   <<"Form1", "Part1", "listedIssuer", "name">>))
         IN Call(v, [obj EXCEPT !._issuer_name = v], "issuer_name")
    ELSE Call(obj._issuer_name, obj, "")

issuer_type_label(code) ==
    IF code = Str("1") THEN Str("Company/Corporation")
    ELSE IF code = Str("2") THEN Str("Registered/Recognised Business Trust")
    ELSE IF code = Str("3") THEN Str("Real Estate Investment Trust")
    ELSE code

issuer_type_call(obj) ==
    IF obj._issuer_type = None
    THEN LET v == Str(xml_get_text(obj._xml, 1,
                                   <<"Form1", "Part1", "listedIssuer", "type">>))
         IN Call(issuer_type_label(v), [obj EXCEPT !._issuer_type = v], "issuer_type")
    ELSE Call(issuer_type_label(obj._issuer_type), obj, "")

insider_name_call(obj) ==
    IF obj._insider_name = None
    THEN LET v == Str(xml_get_text(obj._xml, 1, <<"Form1", "Part1", "nameDirector">>))
         IN Call(v, [obj EXCEPT !._insider_name = v], "insider_name")
    ELSE Call(obj._insider_name, obj, "")

\* A slip in the cache: the date is stored in the field of the insider's name.
trade_date_call_wrong_field(obj) ==
    IF obj._trade_date # None THEN Call(obj._trade_date, obj, "")
    ELSE LET v == Str(xml_get_text(obj._xml, 1,
                          IF is_notifying_at_appt_time(obj)
                          THEN <<"Form1", "Part2", "dateAppointmentDirectorLI">>
                          ELSE <<"Form1", "Part3", "Transaction", "dateAquisition">>))
         IN Call(v, [obj EXCEPT !._insider_name = v], "trade_date")

trade_date_call(obj) ==
    IF obj._trade_date # None THEN Call(obj._trade_date, obj, "")
    ELSE LET v == Str(xml_get_text(obj._xml, 1,
                          IF is_notifying_at_appt_time(obj)
                          THEN <<"Form1", "Part2", "dateAppointmentDirectorLI">>
                          ELSE <<"Form1", "Part3", "Transaction", "dateAquisition">>))
         IN Call(v, [obj EXCEPT !._trade_date = v], "trade_date")

\* A raised ValueError leaves self._securities_before as it was.
securities_before_call(obj) ==
    IF obj._securities_before # None THEN Call(obj._securities_before, obj, "")
    ELSE IF is_notifying_at_appt_time(obj)
    THEN LET parsed == __parse_part_2_securities(obj._xml) IN
         Call(parsed,
              IF parsed.kind = "raise" THEN obj
              ELSE [obj EXCEPT !._securities_before = parsed],
              "__parse_part_2_securities")
    ELSE Call(obj._securities_before, obj, "")

\* securities_after() stores nothing in self._securities_after; in the
\* appointment mode it calls securities_before(), which may store its own.
securities_after_call(obj) ==
    IF obj._securities_after # None THEN Call(obj._securities_after, obj, "")
    ELSE IF is_notifying_at_appt_time(obj) THEN securities_before_call(obj)
    ELSE Call(obj._securities_after, obj, "")

\* A slip in the default: money_str_to_float is left with its own, None.
amt_consideration_call_no_default(obj) ==
    IF obj._amt_consideration # None THEN Call(obj._amt_consideration, obj, "")
    ELSE IF is_notifying_at_appt_time(obj)
    THEN Call(Zero, [obj EXCEPT !._amt_consideration = Zero], "")
    ELSE LET v == money_str_to_float(
                      xml_get_text(obj._xml, 1,
                          <<"Form1", "Part3", "Transaction", "amtConsideration">>),
                      None)
         IN Call(v, [obj EXCEPT !._amt_consideration = v], "amt_consideration")

amt_consideration_call(obj) ==
    IF obj._amt_consideration # None THEN Call(obj._amt_consideration, obj, "")
    ELSE IF is_notifying_at_appt_time(obj)
    THEN Call(Zero, [obj EXCEPT !._amt_consideration = Zero], "")
    ELSE LET v == money_str_to_float(
                      xml_get_text(obj._xml, 1,
                          <<"Form1", "Part3", "Transaction", "amtConsideration">>),
                      Zero)
         IN Call(v, [obj EXCEPT !._amt_consideration = v], "amt_consideration")

\* The step of the program that calls an accessor on the instance.
Invoke(name, call) ==
    /\ pc = "ready"
    /\ call.site # "" => lookups[call.site] < MaxLookups
    /\ self' = call.self
    /\ lookups' = IF call.site = "" THEN lookups ELSE Looked(call.site)
    /\ Return(name, call.ret)
    /\ UNCHANGED <<pc, text, default, root, field, src>>

Call_is_notifying_at_appt_time ==
    Invoke("is_notifying_at_appt_time", is_notifying_at_appt_time_call(self))

Call_insider_title == Invoke("insider_title", insider_title_call(self))

Call_issuer_name == Invoke("issuer_name", issuer_name_call(self))

Call_issuer_type == Invoke("issuer_type", issuer_type_call(self))

Call_insider_name == Invoke("insider_name", insider_name_call(self))

Call_trade_date == Invoke("trade_date", trade_date_call(self))

Call_securities_before == Invoke("securities_before", securities_before_call(self))

Call_securities_after == Invoke("securities_after", securities_after_call(self))

Call_amt_consideration == Invoke("amt_consideration", amt_consideration_call(self))

(***************************************************************************)
(* Specification Spec: one NotificationForm1 over every filing of the      *)
(* model, its constructor and then its accessors in any order              *)
(***************************************************************************)
Init ==
    /\ pc = "new"
    /\ src \in Filings
    /\ self = NotificationForm(Document(src))
    /\ text = None /\ default = None /\ root = None /\ field = None
    /\ lookups = [site \in LookupSites |-> 0]
    /\ repeated = FALSE
    /\ lastCall = "" /\ lastRet = None

Next ==
    \/ Init_NotificationForm1
    \/ Call_is_notifying_at_appt_time
    \/ Call_insider_title
    \/ Call_issuer_name
    \/ Call_issuer_type
    \/ Call_insider_name
    \/ Call_trade_date
    \/ Call_securities_before
    \/ Call_securities_after
    \/ Call_amt_consideration

Spec == Init /\ [][Next]_vars

(***************************************************************************)
(* Specification SpecMoney: money_str_to_float on bounded texts            *)
(***************************************************************************)
MaxLen == 4

MoneyAlphabet == {"1", "6", ".", "e", "k", "M", ",", "$"}

RECURSIVE StringsUpTo(_)
StringsUpTo(n) ==
    IF n = 0 THEN {""}
    ELSE LET shorter == StringsUpTo(n - 1) IN
         shorter \cup {s \o c : s \in {x \in shorter : Len(x) = n - 1}, c \in MoneyAlphabet}

\* The texts of the docstring of money_str_to_float.
DocstringTexts ==
    {"16000.69", "SGD16,000.69", "S$16000.69", "SGD$16.00069k", "SGD$16.9m",
     "SGD$16.9b", "SGD$16.9t", "SGD16e3", "SGD16e2k",
     "", "16.9.0", "SGD16ke3", "SGD16x10^9"}

MoneyTexts == StringsUpTo(MaxLen) \cup DocstringTexts \cup {"1e-3", "1_6", "6e666", "USD 1mm"}

Defaults == {None, Zero}

FormIdle == src = None /\ self = None /\ lookups = None /\ repeated = FALSE

InitMoney ==
    /\ pc = "money"
    /\ text \in MoneyTexts /\ default \in Defaults
    /\ root = None /\ field = None
    /\ FormIdle
    /\ lastCall = "" /\ lastRet = None

Call_money_str_to_float ==
    /\ pc = "money"
    /\ pc' = "money_done"
    /\ lastCall' = "money_str_to_float"
    /\ lastRet' = money_str_to_float(text, default)
    /\ UNCHANGED <<text, default, root, field, formVars>>

NextMoney == Call_money_str_to_float

SpecMoney == InitMoney /\ [][NextMoney]_vars

(***************************************************************************)
(* C5: money_str_to_float(text, default) equals the reference algorithm:   *)
(* lowercase and drop commas; without a decimal digit return default; the  *)
(* multiplier comes from the last character of the whole string; the span  *)
(* from the first to the last digit is parsed as a decimal or scientific   *)
(* number, default if that fails; else the value times the multiplier      *)
(* rounded to 2 decimals.  It never raises.                                *)
(***************************************************************************)
RefDigitPositions(t) == {i \in 1..Len(t) : isdecimal(At(t, i))}

RefMin(S) == CHOOSE i \in S : \A j \in S : i <= j

RefMax(S) == CHOOSE i \in S : \A j \in S : j <= i

RefMultiplier(t) ==
    LET c == IF t = "" THEN "" ELSE At(t, Len(t)) IN
    CASE c = "k" -> 3 [] c = "m" -> 6 [] c = "b" -> 9 [] c = "t" -> 12 [] OTHER -> 0

RefMoney(txt, dflt) ==
    LET t == remove(lower(txt), ",")
        D == RefDigitPositions(t)
    IN IF D = {} THEN dflt
       ELSE LET parsed == float(SubSeq(t, RefMin(D), RefMax(D))) IN
            IF parsed.kind = "raise" THEN dflt
            ELSE round2(Times(parsed, RefMultiplier(t)))

C5_MoneyMatchesReference ==
    pc = "money_done" =>
        /\ lastRet = RefMoney(text, default)
        /\ lastRet.kind # "raise"
        /\ text \in {"", "16.9.0"} => lastRet = default
        /\ text = "SGD$16.9m" => lastRet = Float(169, 5)
        /\ text = "SGD16e2k" => lastRet = Float(16, 5)
        /\ text = "SGD16e3" => lastRet = Float(16, 3)

\* A suffix letter that does not follow the digits still multiplies.
C5_Witness ==
    /\ pc = "money_done"
    /\ text = "16$k"
    /\ lastRet = Float(16, 3)

(***************************************************************************)
(* What the filing says, read off src and not off the tree                 *)
(***************************************************************************)
\* The flag's text is "1" between whitespace.
RefApptTime ==
    /\ src.flag # None
    /\ \E i \in 1..Len(src.flag.s) :
          /\ At(src.flag.s, i) = "1"
          /\ \A j \in (1..Len(src.flag.s)) \ {i} : At(src.flag.s, j) \in WHITESPACE

NonEmpty(cell) == cell # None /\ cell.s # ""

\* The holding map of a table: a key for every cell with text.
RefHolding(cells) ==
    Dict([k \in {t \in SecurityType : NonEmpty(cells[t])} |-> count(cells[k].s).n])

\* The same with the key the code gives the T7Part row.
CodeKey(k) == IF k = "PARTICIPATORY_INTERESTS" THEN str_partition ELSE k

CodeHolding(cells) ==
    Dict([k \in {CodeKey(t) : t \in {t \in SecurityType : NonEmpty(cells[t])}} |->
            count(cells[CHOOSE t \in SecurityType : CodeKey(t) = k].s).n])

\* An optional sign and decimal digits, once the commas are dropped.
RefPlainInteger(s) ==
    LET t == remove(s, ",")
        digits == IF t # "" /\ Head(t) \in {"+", "-"} THEN Tail(t) ELSE t
    IN /\ digits # ""
       /\ \A i \in 1..Len(digits) : isdecimal(At(digits, i))

AnyCell(cells, P(_)) == \E k \in SecurityType : NonEmpty(cells[k]) /\ P(cells[k].s)

NotPlain(s) == ~RefPlainInteger(s)

Rejected(s) == ~int_ok(remove(s, ","))

(***************************************************************************)
(* C1: with the appointment-time flag "1", securities_after() returns what *)
(* securities_before() returns, whatever the tree holds under              *)
(* Part3/Transaction and whatever was called before.                       *)
(***************************************************************************)
C1_AfterEqualsBefore ==
    pc = "ready" /\ RefApptTime /\ lastCall = "securities_after" =>
        lastRet = securities_before_call(self).ret

(***************************************************************************)
(* C2: with the appointment-time flag "1", securities_before() returns the *)
(* holding map of the section-II totals table, whatever the tree holds     *)
(* under Part3/Transaction, and None when there is no Part2/T1.            *)
(***************************************************************************)
C2_BeforeFromPart2 ==
    pc = "ready" /\ RefApptTime /\ lastCall = "securities_before"
                 /\ lastRet.kind # "raise" =>
        lastRet = IF src.part2 = None THEN None ELSE RefHolding(src.part2.d)

(***************************************************************************)
(* C3: without the flag and with a Part3/Transaction, the keys of          *)
(* securities_before() are the SecurityType members whose "before" text is *)
(* not empty, each with the integer of that text, and likewise             *)
(* securities_after() and the "after" texts; no key is anything else.      *)
(***************************************************************************)
C3_Part3KeysAreMembers ==
    pc = "ready" /\ ~RefApptTime /\ src.part3 # None =>
        /\ lastCall = "securities_before" => lastRet = RefHolding(src.part3.before)
        /\ lastCall = "securities_after" => lastRet = RefHolding(src.part3.after)

(***************************************************************************)
(* C4: amt_consideration() returns 0 with the flag "1", whatever           *)
(* amtConsideration holds, and else the money value of that field's text   *)
(* with default 0 (0 when missing or unparsable), on every call.           *)
(***************************************************************************)
RefAmtText ==
    IF src.part3 = None THEN ""
    ELSE IF src.part3.amt = None THEN "" ELSE src.part3.amt.s

C6_LookupsAtMostOnce ==
    pc = "ready" => \A site \in LookupSites : lookups[site] <= 1

(***************************************************************************)
(* C7: an accessor called again returns a value equal to the one it        *)
(* returned before, whatever accessors were called before or in between:   *)
(* no call changes what any accessor returns, and the value a call returns *)
(* is the one the next call of it returns.                                 *)
(***************************************************************************)
Accessors ==
    {"issuer_name", "issuer_type", "insider_name", "insider_title", "trade_date",
     "securities_before", "securities_after", "amt_consideration",
     "is_notifying_at_appt_time"}

Returns(a, obj) ==
    CASE a = "issuer_name" -> issuer_name_call(obj).ret
      [] a = "issuer_type" -> issuer_type_call(obj).ret
      [] a = "insider_name" -> insider_name_call(obj).ret
      [] a = "insider_title" -> insider_title_call(obj).ret
      [] a = "trade_date" -> trade_date_call(obj).ret
      [] a = "securities_before" -> securities_before_call(obj).ret
      [] a = "securities_after" -> securities_after_call(obj).ret
      [] a = "amt_consideration" -> amt_consideration_call(obj).ret
      [] a = "is_notifying_at_appt_time" -> is_notifying_at_appt_time_call(obj).ret

C7_AccessorsStable ==
    [][pc = "ready" =>
          /\ \A a \in Accessors : Returns(a, self') = Returns(a, self)
          /\ lastRet' = Returns(lastCall', self')
          /\ lastCall' = lastCall => lastRet' = lastRet]_vars

\* issuer_type() twice in a row: the label both times, the code "2" cached.
C7_Witness ==
    /\ pc = "ready" /\ lastCall = "issuer_type" /\ repeated
    /\ self._issuer_type = Str("2")
    /\ lastRet = Str("Registered/Recognised Business Trust")

Mode == IF is_notifying_at_appt_time(self) THEN "appointment" ELSE "transaction"

C10_ModeFixedAtConstruction ==
    pc = "ready" =>
        /\ Mode = IF RefApptTime THEN "appointment" ELSE "transaction"
        /\ lastCall = "is_notifying_at_appt_time" => lastRet = Bool(RefApptTime)

\* The flag " 1\n" after trade_date() and securities_after() have run.
C10_Witness ==
    /\ pc = "ready" /\ lastCall = "is_notifying_at_appt_time"
    /\ src.flag = Str(" 1\n")
    /\ self._trade_date # None /\ lookups["__parse_part_2_securities"] > 0
    /\ lastRet = Bool(TRUE)

(***************************************************************************)
(* Specification SpecXml: xml_get_text on every tree of bounded size       *)
(***************************************************************************)
MaxNodes == 4

TreeTags == {"a", "b"}

Fields == {<<"a">>, <<"b">>, <<"a", "b">>, <<"b", "a">>, <<"a", "a">>, <<"a", "b", "a">>, <<"c">>}

\* Shapes: the trees with n elements under a root <a>, texts not yet given.
RECURSIVE TreesOfSize(_)
TreesOfSize(n) ==
    IF n = 0 THEN {<<Element(0, "a", None)>>}
    ELSE UNION {{Append(t, Element(d, g, None)) :
                    d \in 1..(t[Len(t)].depth + 1), g \in TreeTags} :
                t \in TreesOfSize(n - 1)}

NodeText(i) == "t" \o At(DIGITS, i + 1)

\* Every element gets a text of its own, but element blank, which has none.
WithTexts(t, blank) ==
    [i \in 1..Len(t) |->
        Element(t[i].depth, t[i].tag, IF i = blank THEN None ELSE Str(NodeText(i)))]

Trees ==
    UNION {{WithTexts(t, blank) : blank \in 0..Len(t)} :
           t \in UNION {TreesOfSize(n) : n \in 0..MaxNodes}}

InitXml ==
    /\ pc = "xml"
    /\ root \in Trees /\ field \in Fields
    /\ text = None /\ default = None
    /\ FormIdle
    /\ lastCall = "" /\ lastRet = None

Call_xml_get_text ==
    /\ pc = "xml"
    /\ pc' = "xml_done"
    /\ lastCall' = "xml_get_text"
    /\ lastRet' = Str(xml_get_text(root, 1, field))
    /\ UNCHANGED <<text, default, root, field, formVars>>

NextXml == Call_xml_get_text

SpecXml == InitXml /\ [][NextXml]_vars

\* The parent of element k, and its ancestor n levels up (NotFound above the root).
Parent(tree, k) ==
    IF k = 1 THEN NotFound
    ELSE CHOOSE j \in 1..(k - 1) :
            /\ tree[j].depth = tree[k].depth - 1
            /\ \A i \in (j + 1)..(k - 1) : tree[i].depth >= tree[k].depth

RECURSIVE Ancestor(_, _, _)
Ancestor(tree, k, n) ==
    IF n = 0 \/ k = NotFound THEN k ELSE Ancestor(tree, Parent(tree, k), n - 1)

\* Element k ends a chain of elements, each the child of the one before, that
\* carry the tags of the path, and the chain begins strictly below the root.
MatchesPath(tree, k, steps) ==
    /\ Ancestor(tree, k, Len(steps)) # NotFound
    /\ \A n \in 1..Len(steps) :
          tree[Ancestor(tree, k, Len(steps) - n)].tag = steps[n]

Matches(tree, fld) == {k \in 2..Len(tree) : MatchesPath(tree, k, fld)}

TextOrEmpty(tree, k) == IF tree[k].text = None THEN "" ELSE tree[k].text.s

\* The element of the chain of k that carries the first tag of the path.
Anchor(tree, k, fld) == Ancestor(tree, k, Len(fld) - 1)

FirstInDocument(tree, fld) ==
    CHOOSE k \in Matches(tree, fld) : \A j \in Matches(tree, fld) : k <= j

\* The match with the earliest anchor, and the earliest of that anchor's.
FirstByAnchor(tree, fld) ==
    CHOOSE k \in Matches(tree, fld) : \A j \in Matches(tree, fld) :
        \/ Anchor(tree, k, fld) < Anchor(tree, j, fld)
        \/ Anchor(tree, k, fld) = Anchor(tree, j, fld) /\ k <= j

\* No element with the path's first tag lies inside another's subtree.
AnchorsNotNested(tree, fld) ==
    \A k, j \in Matches(tree, fld) :
        LET a == Anchor(tree, k, fld)
            b == Anchor(tree, j, fld)
        IN ~(a < b /\ b <= SubtreeEnd(tree, a))

(***************************************************************************)
(* C9, as stated: xml_get_text(root, path) is the text of the first        *)
(* element, in document order, among the descendants of root that match    *)
(* the path, and "" when none matches or the match has no text.            *)
(***************************************************************************)
C9_FirstInDocumentOrder ==
    pc = "xml_done" =>
        lastRet = Str(IF Matches(root, field) = {} THEN ""
                      ELSE TextOrEmpty(root, FirstInDocument(root, field)))

(***************************************************************************)
(* C9, amended: xml_get_text(root, path) is always a str, never None and   *)
(* never an error: "" when no descendant matches or the match has no text, *)
(* else the text of the first match in ElementTree's search order, which   *)
(* takes the elements carrying the path's first tag in document order and  *)
(* for each of them its matches in document order.  That is the first      *)
(* match in document order when no such element lies inside another.       *)
(***************************************************************************)
C9_FirstInSearchOrder ==
    pc = "xml_done" =>
        /\ lastRet.kind = "str"
        /\ lastRet = Str(IF Matches(root, field) = {} THEN ""
                         ELSE TextOrEmpty(root, FirstByAnchor(root, field)))
        /\ AnchorsNotNested(root, field) /\ Matches(root, field) # {} =>
              lastRet = Str(TextOrEmpty(root, FirstInDocument(root, field)))

\* <a><a>t2<a>t3<b>t4</b></a><b>t5</b></a></a>: the outer <a>'s own <b> is found first.
C9_Witness ==
    /\ pc = "xml_done"
    /\ field = <<"a", "b">>
    /\ Matches(root, field) # {}
    /\ FirstByAnchor(root, field) # FirstInDocument(root, field)
    /\ lastRet = Str(NodeText(FirstByAnchor(root, field)))

====
